---- MODULE Spec2Model ----
\* Model of the chat server of async-local-chat (src/server.py).
\*
\* Text is modelled as sequences of one-character strings, so that the
\* command parsing (startswith, split), the CSV writing of the history file
\* and the split(",", 2) that reads it back are computed as the code
\* computes them.  Input lines and names contain no CR/LF (the console
\* client sends single lines), so every row of the history file is one line.
\*
\* Spec runs every handler from one read to the next without another task
\* running in between (the schedule in which no other connection has input
\* ready while a handler is suspended).
EXTENDS Integers, Sequences, FiniteSets, TLC

\* ---------------------------------------------------------------- bounds
MaxConns == 3        \* connections accepted during a run
MaxRecv == 3         \* lines read by the read loops during a run
MaxRestore == 2      \* largest configured restore_last_messages
MaxClose == 1        \* connections ended by their peers during a run

Conns == 1..MaxConns

\* ------------------------------------------------------------------ text
NL == <<"\n">>
CRLF == <<"\r", "\n">>
COMMA == ","
SPACE == " "
QUOTE == "\""
Whitespace == {" ", "\n", "\r", "\t"}

PRIVATE == <<"/", "p", "r", "i", "v", "a", "t", "e">>
DISCONNECT == <<"/", "d", "i", "s", "c", "o", "n", "n", "e", "c", "t">>
RECONNECT == <<"/", "r", "e", "c", "o", "n", "n", "e", "c", "t">>
PROMPT == <<"E", "n", "t", "e", "r", " ", "y", "o", "u", "r", " ", "n", "a", "m", "e", ":", " ">>
WELCOME == <<"W", "e", "l", "c", "o", "m", "e", " ", "t", "o", " ", "t", "h", "e", " ", "c", "h", "a", "t", ",", " ">>
PRIVATE_FROM == <<"P", "r", "i", "v", "a", "t", "e", " ", "m", "e", "s", "s", "a", "g", "e", " ", "f", "r", "o", "m", " ">>
NOT_FOUND == <<"R", "e", "c", "i", "p", "i", "e", "n", "t", " ", "n", "o", "t", " ", "f", "o", "u", "n", "d", ".", "\n">>
COLON == <<":", " ">>

\* names a client may give at the handshake, and a name nobody gives
Names == {<<"A">>, <<"B">>, <<"C">>}
Stranger == <<"X">>

\* the recipient argument of history_file: None, or a name
None == <<>>
Some(n) == <<n>>

\* str.startswith
StartsWith(s, p) == Len(s) >= Len(p) /\ SubSeq(s, 1, Len(p)) = p

\* index of the first occurrence of the character ch in s, 0 when absent
Find(s, ch) ==
    IF \E i \in 1..Len(s) : s[i] = ch
    THEN CHOOSE i \in 1..Len(s) : s[i] = ch /\ \A j \in 1..(i - 1) : s[j] /= ch
    ELSE 0

\* str.split(sep, maxsplit) for a one-character separator
RECURSIVE Split(_, _, _)
Split(s, sep, maxsplit) ==
    IF maxsplit = 0 \/ Find(s, sep) = 0
    THEN <<s>>
    ELSE <<SubSeq(s, 1, Find(s, sep) - 1)>>
         \o Split(SubSeq(s, Find(s, sep) + 1, Len(s)), sep, maxsplit - 1)

\* str.strip
RECURSIVE Strip(_)
Strip(s) ==
    IF s = <<>> THEN s
    ELSE IF s[1] \in Whitespace THEN Strip(Tail(s))
    ELSE IF s[Len(s)] \in Whitespace THEN Strip(SubSeq(s, 1, Len(s) - 1))
    ELSE s

\* csv.writer, default dialect (QUOTE_MINIMAL): a field holding the
\* delimiter, the quote character or a line break is wrapped in quotes and
\* its quotes are doubled
NeedsQuote(f) == \E i \in 1..Len(f) : f[i] \in {COMMA, QUOTE, "\r", "\n"}

RECURSIVE DoubleQuotes(_)
DoubleQuotes(f) ==
    IF f = <<>> THEN <<>>
    ELSE (IF f[1] = QUOTE THEN <<QUOTE, QUOTE>> ELSE <<f[1]>>) \o DoubleQuotes(Tail(f))

CsvField(f) == IF NeedsQuote(f) THEN <<QUOTE>> \o DoubleQuotes(f) \o <<QUOTE>> ELSE f

\* one row as csv.writer.writerow puts it in the file; None is written as
\* the empty field
CsvRow(row) ==
    CsvField(row.sender) \o <<COMMA>> \o CsvField(row.message) \o <<COMMA>>
    \o (IF row.recipient = None THEN <<>> ELSE CsvField(row.recipient[1])) \o CRLF

\* file.readlines() of the history file: one line per appended row
ReadLines(h) == [i \in 1..Len(h) |-> CsvRow(h[i])]

Reverse(s) == [i \in 1..Len(s) |-> s[Len(s) + 1 - i]]


\* ----------------------------------------------------------------- input
HI == <<"h", "i">>
A_COMMA_B == <<"a", ",", "b">>
YO == <<"y", "o">>

PrivateTo(n) == PRIVATE \o <<SPACE>> \o n \o <<SPACE>> \o YO

\* the lines a client may send: chat (one with a comma), the presence
\* commands, /private without a text, /private to B and to a name nobody has
Lines ==
    {HI, A_COMMA_B, DISCONNECT, RECONNECT, PRIVATE \o <<SPACE>> \o <<"B">>}
    \cup {PrivateTo(n) : n \in {<<"B">>, Stranger}}

\* ----------------------------------------------------------------- state
VARIABLES
    clients,                \* Server.clients: set of <<writer, name>>
    clients_online,         \* Server.clients_online: set of names
    history,                \* rows appended to history.csv, oldest first
    restore_last_messages,  \* ServerSettings.restore_last_messages
    st,                     \* per connection: position of its client_handler
    name,                   \* per connection: the local name of its handler
    out,                    \* per connection: payloads of writer.write, in order
    last,                   \* the step the server took last
    nrecv,                  \* lines read by the read loops so far
    nclose,                 \* connections ended by their peers so far
    pend,                   \* per connection: what its suspended handler resumes with
    missed                  \* per name: chat lines broadcast since the name went offline

vars == <<clients, clients_online, history, restore_last_messages, st, name, out, last, nrecv, nclose,
          pend, missed>>

NoName == <<>>

\* StreamWriter.is_closing: true once the handler ran writer.close(), and
\* once a send on the transport failed (the transport then closes itself)
is_closing(w) == st[w] \in {"closed", "lost"}

\* the peer of w has reset the connection and the event loop has not polled
\* the socket since: the transport is not closing yet, the next send fails
peer_reset(w) == st[w] = "reset"

Row(sender_name, message, recipient) ==
    [sender |-> sender_name, message |-> message, recipient |-> recipient]

\* Server.history_file: append one row to the file h
history_file(h, message, sender_name, recipient) ==
    Append(h, Row(sender_name, message, recipient))

\* the writers registered under a name; next(...) over the set takes the
\* first in the set's iteration order, which is any of them
Lookup(n) == {w \in Conns : <<w, n>> \in clients}

\* broadcast with the sender left out of the recipients
broadcast_without_sender(o, message, sender_name) ==
    [w \in Conns |->
        IF (\E n \in Names : <<w, n>> \in clients /\ n /= sender_name) /\ ~is_closing(w)
        THEN Append(o[w], message \o NL)
        ELSE o[w]]

\* Server.broadcast: one write to every registered writer that is not closing
broadcast(o, message, sender_name) ==
    [w \in Conns |->
        IF (\E n \in Names : <<w, n>> \in clients) /\ ~is_closing(w)
        THEN Append(o[w], message \o NL)
        ELSE o[w]]

\* outcome of a handler step: the new online set, outputs and file, and the
\* exception that leaves transfer ("none" when it returns)
Result(on, o, h, exc) == [online |-> on, out |-> o, history |-> h, exc |-> exc]

\* the writers the loop of broadcast writes to
Recipients == {w \in Conns : (\E n \in Names : <<w, n>> \in clients) /\ ~is_closing(w)}

\* Server.broadcast when the send on a recipient b fails: its drain raises
\* ConnectionResetError, which the except clause of the loop (CancelledError
\* only) lets through.  The writers met before b in the iteration order of
\* the set, which is any set P of the others, have been written; the ones
\* after it have not.
broadcast_raises(o, message) ==
    {[w \in Conns |-> IF w \in P \cup {b} THEN Append(o[w], message \o NL) ELSE o[w]]
        : P \in SUBSET {w \in Recipients : ~peer_reset(w)},
          b \in {w \in Recipients : peer_reset(w)}}

\* await self.broadcast(message, sender_name) with the online set on at the
\* call: the exception when a send fails, else the outcome done of the
\* statements that follow the broadcast
Broadcast(on, message, done) ==
    IF \E w \in Recipients : peer_reset(w)
    THEN {Result(on, o, history, "ConnectionResetError") : o \in broadcast_raises(out, message)}
    ELSE {done}

\* writer.write(data); await writer.drain() on the writer w, then the rest
\* of the try block given as the file after it.  On a writer that is
\* closing, drain raises ConnectionResetError once the transport has
\* reported the lost connection, and returns while it is still flushing.
\* On a connection its peer has reset the send fails and drain raises.
WriteDrain(w, data, hAfter) ==
    LET o == [out EXCEPT ![w] = Append(@, data)]
    IN  IF peer_reset(w) \/ st[w] = "lost"
        THEN {Result(clients_online, o, history, "ConnectionResetError")}
        ELSE IF is_closing(w)
        THEN {Result(clients_online, o, history, "ConnectionResetError"),
              Result(clients_online, o, hAfter, "none")}
        ELSE {Result(clients_online, o, hAfter, "none")}

\* --------------------------------------------------------- replay engine
\* line.strip().split(",", 2)
Fields(line) == Split(Strip(line), COMMA, 2)

\* f"{sender_name}: {message}\n"
Render(sender_name, message) == sender_name \o COLON \o message \o NL

\* The scan of restore_for_new over the reversed lines rl from position i,
\* with the deque messages kept so far.  A line that does not unpack into
\* three fields raises ValueError, which the handler's except Exception
\* takes: nothing is written then (ok is FALSE).
RECURSIVE NewScan(_, _, _)
NewScan(rl, i, messages) ==
    IF i > Len(rl) THEN [ok |-> TRUE, messages |-> messages]
    ELSE LET f == Fields(rl[i])
         IN  IF Len(f) /= 3 THEN [ok |-> FALSE, messages |-> <<>>]
             ELSE LET kept == IF f[3] = <<>> THEN <<<<f[1], f[2]>>>> \o messages
                              ELSE messages
                  IN  IF Len(kept) >= restore_last_messages
                      THEN [ok |-> TRUE, messages |-> kept]
                      ELSE NewScan(rl, i + 1, kept)

\* Server.restore_for_new: the payloads written to the new client's writer
restore_for_new(h) ==
    LET scan == NewScan(Reverse(ReadLines(h)), 1, <<>>)
        messages == scan.messages
    IN  IF ~scan.ok THEN <<>>
        ELSE [k \in 1..Len(messages) |-> Render(messages[k][1], messages[k][2])]

\* the disconnect_index of restore_for_reconnect as a position 1..Len(lines)
\* (0 for None): the last line of sender_name whose message starts with
\* /disconnect, -1 when a line met on the way does not unpack
RECURSIVE DisconnectIndex(_, _, _)
DisconnectIndex(lines, i, sender_name) ==
    IF i = 0 THEN 0
    ELSE LET f == Fields(lines[i])
         IN  IF Len(f) /= 3 THEN -1
             ELSE IF f[1] = sender_name /\ StartsWith(f[2], DISCONNECT) THEN i
             ELSE DisconnectIndex(lines, i - 1, sender_name)

\* the writes of the second loop of restore_for_reconnect from line i on; a
\* line that does not unpack ends the loop with the writes made so far
RECURSIVE ReplayFrom(_, _)
ReplayFrom(lines, i) ==
    IF i > Len(lines) THEN <<>>
    ELSE LET f == Fields(lines[i])
         IN  IF Len(f) /= 3 THEN <<>>
             ELSE <<Render(f[1], f[2])>> \o ReplayFrom(lines, i + 1)

\* Server.restore_for_reconnect: the payloads written to the writer
restore_for_reconnect(h, sender_name) ==
    LET lines == ReadLines(h)
        disconnect_index == DisconnectIndex(lines, Len(lines), sender_name)
    IN  IF disconnect_index = -1 THEN <<>>
        ELSE IF disconnect_index = 0 THEN <<>>
        ELSE ReplayFrom(lines, disconnect_index + 1)

\* -------------------------------------------------------- message router
\* Server.transfer, the /private branch
transfer_private(message, sender_name, writer) ==
    LET parts == Split(message, SPACE, 2)
    IN  IF Len(parts) /= 3
        THEN {Result(clients_online, out, history, "ValueError")}
        ELSE LET recipient_name == parts[2]
                 private_message == parts[3]
             IN  IF Lookup(recipient_name) /= {}
                 THEN UNION {WriteDrain(recipient_writer,
                                 PRIVATE_FROM \o sender_name \o COLON \o private_message \o NL,
                                 history_file(history, private_message, sender_name,
                                              Some(recipient_name)))
                             : recipient_writer \in Lookup(recipient_name)}
                 ELSE IF Lookup(sender_name) /= {}
                 THEN UNION {WriteDrain(sender_writer, NOT_FOUND, history)
                             : sender_writer \in Lookup(sender_name)}
                 ELSE {Result(clients_online, out, history, "none")}

\* Server.transfer, the /disconnect branch
transfer_disconnect(message, sender_name, writer) ==
    IF sender_name \notin clients_online
    THEN {Result(clients_online, out, history, "KeyError")}
    ELSE Broadcast(clients_online \ {sender_name}, DISCONNECT,
                   Result(clients_online \ {sender_name},
                          broadcast(out, DISCONNECT, sender_name),
                          history_file(history, message, sender_name, None),
                          "none"))

\* the /reconnect branch without the test of clients_online
transfer_reconnect_unguarded(message, sender_name, writer) ==
    LET o == [w \in Conns |->
                 IF (\E n \in Names : <<w, n>> \in clients) /\ ~is_closing(w)
                 THEN Append(out[w], RECONNECT \o NL)
                 ELSE out[w]]
    IN  {Result(clients_online \cup {sender_name},
                [o EXCEPT ![writer] = @ \o restore_for_reconnect(history, sender_name)],
                history, "none")}

\* Server.transfer, the /reconnect branch
transfer_reconnect(message, sender_name, writer) ==
    IF sender_name \notin clients_online
    THEN LET o == broadcast(out, RECONNECT, sender_name)
         IN  Broadcast(clients_online \cup {sender_name}, RECONNECT,
                       Result(clients_online \cup {sender_name},
                              [o EXCEPT ![writer] = @ \o restore_for_reconnect(history, sender_name)],
                              history, "none"))
    ELSE {Result(clients_online, out, history, "none")}

\* the branch of every other line without the test of clients_online
transfer_chat_unguarded(message, sender_name, writer) ==
    {Result(clients_online,
            [w \in Conns |->
                IF (\E n \in Names : <<w, n>> \in clients) /\ ~is_closing(w)
                THEN Append(out[w], sender_name \o COLON \o message \o NL)
                ELSE out[w]],
            Append(history, Row(sender_name, message, None)),
            "none")}

\* Server.transfer, the branch of every other line
transfer_chat(message, sender_name, writer) ==
    IF sender_name \in clients_online
    THEN Broadcast(clients_online, sender_name \o COLON \o message,
                   Result(clients_online,
                          broadcast(out, sender_name \o COLON \o message, sender_name),
                          history_file(history, message, sender_name, None),
                          "none"))
    ELSE {Result(clients_online, out, history, "none")}

\* Server.transfer: the outcomes of handling one line
transfer(message, sender_name, writer) ==
    IF StartsWith(message, PRIVATE) THEN transfer_private(message, sender_name, writer)
    ELSE IF StartsWith(message, DISCONNECT) THEN transfer_disconnect(message, sender_name, writer)
    ELSE IF StartsWith(message, RECONNECT) THEN transfer_reconnect(message, sender_name, writer)
    ELSE transfer_chat(message, sender_name, writer)

\* ------------------------------------------------------- session handler
Event(op, c, line) == [op |-> op, conn |-> c, line |-> line]

\* the locals of a handler that is not suspended inside transfer: the
\* payload of its broadcast, the writers the loop has still to visit, the
\* size of the set when the iteration began, the row to append after the
\* broadcast, and whether restore_for_reconnect follows it
NoPend == [payload |-> <<>>, todo |-> {}, used |-> 0, row |-> <<>>, replay |-> FALSE]

Init ==
    /\ clients = {}
    /\ clients_online = {}
    /\ history = <<>>
    /\ restore_last_messages \in 0..MaxRestore
    /\ st = [c \in Conns |-> "connecting"]
    /\ name = [c \in Conns |-> NoName]
    /\ out = [c \in Conns |-> <<>>]
    /\ last = Event("start", 0, <<>>)
    /\ nrecv = 0
    /\ nclose = 0
    /\ pend = [c \in Conns |-> NoPend]
    /\ missed = [n \in Names |-> {}]

\* the names the client of connection c may give: the first two clients
\* are A and B, a later one takes one of their names again or the name C
NamesOf(c) == IF c = 1 THEN {<<"A">>} ELSE IF c = 2 THEN {<<"B">>} ELSE Names

\* client_handler from its start to the first read of the loop: prompt,
\* name, registration, replay for a new client, welcome.  Connections are
\* accepted in the order of their handles.
Handshake(c, n) ==
    /\ st[c] = "connecting"
    /\ \A d \in Conns : d < c => st[d] /= "connecting"
    /\ n \in NamesOf(c)
    /\ name' = [name EXCEPT ![c] = n]
    /\ clients' = clients \cup {<<c, n>>}
    /\ clients_online' = clients_online \cup {n}
    /\ out' = [out EXCEPT ![c] = (<<PROMPT>> \o restore_for_new(history))
                                  \o <<WELCOME \o n \o <<"!">> \o NL>>]
    /\ st' = [st EXCEPT ![c] = "active"]
    /\ last' = Event("handshake", c, n)
    /\ UNCHANGED <<history, restore_last_messages, nrecv, nclose, pend, missed>>

\* the read of the name raises ConnectionResetError: the except clause
\* fails on the unbound name, the finally clause closes the writer
HandshakeReset(c) ==
    /\ st[c] = "connecting"
    /\ \A d \in Conns : d < c => st[d] /= "connecting"
    /\ nclose < MaxClose
    /\ nclose' = nclose + 1
    /\ st' = [st EXCEPT ![c] = "closed"]
    /\ out' = [out EXCEPT ![c] = <<PROMPT>>]
    /\ last' = Event("handshake_reset", c, <<>>)
    /\ UNCHANGED <<clients, clients_online, history, restore_last_messages, name, nrecv, pend, missed>>

\* what client_handler does with the way transfer ended: a
\* ConnectionResetError runs clients_online.remove(name), every exception
\* runs the finally clause, which closes the writer.  The transport of a
\* reset connection that transfer wrote to has closed itself; its own
\* handler has still to take the error from its read.
AfterTransfer(c, r) ==
    /\ clients_online' = IF r.exc = "ConnectionResetError"
                         THEN r.online \ {name[c]} ELSE r.online
    /\ st' = [w \in Conns |->
                IF w = c THEN (IF r.exc = "none" THEN "active" ELSE "closed")
                ELSE IF peer_reset(w) /\ r.out[w] /= out[w] THEN "lost"
                ELSE st[w]]

\* one turn of the read loop: a non-empty line is read and transferred
Recv(c, message) ==
    /\ st[c] = "active"
    /\ nrecv < MaxRecv
    /\ \E r \in transfer(message, name[c], c) :
        /\ out' = r.out
        /\ history' = r.history
        /\ AfterTransfer(c, r)
    /\ nrecv' = nrecv + 1
    /\ last' = Event("recv", c, message)
    /\ UNCHANGED <<clients, restore_last_messages, name, nclose, pend, missed>>

\* a clean close that also takes the pair of the connection out of the
\* registry and leaves the online set alone
EofUnregistering(c) ==
    /\ st[c] = "active"
    /\ nclose < MaxClose
    /\ nclose' = nclose + 1
    /\ clients' = clients \ {<<c, name[c]>>}
    /\ st' = [st EXCEPT ![c] = "closed"]
    /\ last' = Event("eof", c, <<>>)
    /\ UNCHANGED <<clients_online, history, restore_last_messages, name, out, nrecv, pend, missed>>

\* the read returns no data (the peer closed): break, then writer.close()
Eof(c) ==
    /\ st[c] = "active"
    /\ nclose < MaxClose
    /\ nclose' = nclose + 1
    /\ st' = [st EXCEPT ![c] = "closed"]
    /\ last' = Event("eof", c, <<>>)
    /\ UNCHANGED <<clients, clients_online, history, restore_last_messages, name, out, nrecv, pend, missed>>

\* the read raises ConnectionResetError: clients_online.remove(name), then
\* writer.close() (also when remove raises KeyError)
Reset(c) ==
    /\ st[c] = "active"
    /\ nclose < MaxClose
    /\ nclose' = nclose + 1
    /\ clients_online' = clients_online \ {name[c]}
    /\ st' = [st EXCEPT ![c] = "closed"]
    /\ last' = Event("reset", c, <<>>)
    /\ UNCHANGED <<clients, history, restore_last_messages, name, out, nrecv, pend, missed>>

Next ==
    \/ \E c \in Conns, n \in Names : Handshake(c, n)
    \/ \E c \in Conns : HandshakeReset(c)
    \/ \E c \in Conns, message \in Lines : Recv(c, message)
    \/ \E c \in Conns : Eof(c)
    \/ \E c \in Conns : Reset(c)

Spec == Init /\ [][Next]_vars

\* ---------------------------------------------- faults of the environment
\* the peer of c resets its connection while the handler of c waits in its
\* read; the event loop has not polled the socket yet
PeerReset(c) ==
    /\ st[c] = "active"
    /\ nclose < MaxClose
    /\ nclose' = nclose + 1
    /\ st' = [st EXCEPT ![c] = "reset"]
    /\ last' = Event("peer_reset", c, <<>>)
    /\ UNCHANGED <<clients, clients_online, history, restore_last_messages, name, out, nrecv, pend, missed>>

\* the read of c raises ConnectionResetError after the reset was polled or a
\* send failed: clients_online.remove(name), then writer.close()
ResetRead(c) ==
    /\ st[c] \in {"reset", "lost"}
    /\ clients_online' = clients_online \ {name[c]}
    /\ st' = [st EXCEPT ![c] = "closed"]
    /\ last' = Event("reset", c, <<>>)
    /\ UNCHANGED <<clients, history, restore_last_messages, name, out, nrecv, nclose, pend, missed>>

\* one turn of the read loop in which history_file raises OSError (the file
\* cannot be opened for append).  The append is the last statement of its
\* branch of transfer, so the writes before it have been made; the error
\* leaves transfer and client_handler, whose finally clause closes the writer.
RecvAppendFails(c, message) ==
    /\ st[c] = "active"
    /\ nrecv < MaxRecv
    /\ \E r \in transfer(message, name[c], c) :
        /\ r.exc = "none"
        /\ r.history /= history
        /\ out' = r.out
        /\ history' = history
        /\ AfterTransfer(c, [r EXCEPT !.exc = "OSError"])
    /\ nrecv' = nrecv + 1
    /\ last' = Event("append_fails", c, message)
    /\ UNCHANGED <<clients, restore_last_messages, name, nclose, pend, missed>>

\* the lines read when faults are studied: a chat line, the presence
\* commands and a private message to B
LinesF == {HI, DISCONNECT, RECONNECT, PrivateTo(<<"B">>)}

InitF == Init /\ restore_last_messages = MaxRestore

NextF ==
    \/ \E c \in Conns, n \in Names : Handshake(c, n)
    \/ \E c \in Conns, message \in LinesF : Recv(c, message)
    \/ \E c \in Conns : PeerReset(c)
    \/ \E c \in Conns : ResetRead(c)
    \/ \E c \in Conns, message \in LinesF : RecvAppendFails(c, message)

SpecF == InitF /\ [][NextF]_vars

\* ------------------------------------------- handlers suspended at awaits
\* The handlers above run from one read to the next.  Below, a handler
\* gives way to the others where its coroutine suspends: at the read of the
\* history file in restore_for_new and restore_for_reconnect, at the append
\* of history_file (aiofiles hands both to a thread), and at a drain that
\* waits for the peer to take data.

\* client_handler up to the first suspension of restore_for_new: prompt,
\* name, clients.add, clients_online.add
HandshakeRegister(c, n) ==
    /\ st[c] = "connecting"
    /\ \A d \in Conns : d < c => st[d] /= "connecting"
    /\ n \in NamesOf(c)
    /\ name' = [name EXCEPT ![c] = n]
    /\ clients' = clients \cup {<<c, n>>}
    /\ clients_online' = clients_online \cup {n}
    /\ out' = [out EXCEPT ![c] = <<PROMPT>>]
    /\ st' = [st EXCEPT ![c] = "restoring"]
    /\ last' = Event("register", c, n)
    /\ UNCHANGED <<history, restore_last_messages, nrecv, nclose, pend, missed>>

\* restore_for_new resumes with the lines of the file as they are now,
\* writes the replay, and the handler writes the welcome line
HandshakeRestore(c) ==
    /\ st[c] = "restoring"
    /\ out' = [out EXCEPT ![c] = (@ \o restore_for_new(history))
                                  \o <<WELCOME \o name[c] \o <<"!">> \o NL>>]
    /\ st' = [st EXCEPT ![c] = "active"]
    /\ last' = Event("restore", c, name[c])
    /\ UNCHANGED <<clients, clients_online, history, restore_last_messages, name, nrecv, nclose,
                   pend, missed>>

\* await self.broadcast(payload, name) in the handler of c, followed by the
\* append of row or by restore_for_reconnect.  Either no drain waits and the
\* loop writes to every recipient, or the loop suspends at the drain of the
\* first recipient it has written to, which is any of them (P).
BroadcastI(c, payload, row, replay) ==
    \/ /\ out' = broadcast(out, payload, name[c])
       /\ st' = [st EXCEPT ![c] = IF replay THEN "replay" ELSE "append"]
       /\ pend' = [pend EXCEPT ![c] = [NoPend EXCEPT !.row = row]]
    \/ \E P \in {{w} : w \in Recipients} :
        /\ out' = [w \in Conns |-> IF w \in P THEN Append(out[w], payload \o NL) ELSE out[w]]
        /\ st' = [st EXCEPT ![c] = "drain"]
        /\ pend' = [pend EXCEPT ![c] =
                        [payload |-> payload, todo |-> Recipients \ P,
                         used |-> Cardinality(clients), row |-> row, replay |-> replay]]

\* one read of the loop and transfer up to its first suspension
RecvI(c, message) ==
    /\ st[c] = "active"
    /\ nrecv < MaxRecv
    /\ ~StartsWith(message, PRIVATE)
    /\ IF StartsWith(message, DISCONNECT)
       THEN IF name[c] \notin clients_online
            THEN /\ st' = [st EXCEPT ![c] = "closed"]
                 /\ UNCHANGED <<clients_online, out, pend, missed>>
            ELSE /\ clients_online' = clients_online \ {name[c]}
                 /\ missed' = [missed EXCEPT ![name[c]] = {}]
                 /\ BroadcastI(c, DISCONNECT, <<Row(name[c], message, None)>>, FALSE)
       ELSE IF StartsWith(message, RECONNECT)
       THEN IF name[c] \notin clients_online
            THEN /\ clients_online' = clients_online \cup {name[c]}
                 /\ BroadcastI(c, RECONNECT, <<>>, TRUE)
                 /\ UNCHANGED missed
            ELSE UNCHANGED <<clients_online, out, st, pend, missed>>
       ELSE IF name[c] \in clients_online
            THEN /\ BroadcastI(c, name[c] \o COLON \o message,
                               <<Row(name[c], message, None)>>, FALSE)
                 /\ missed' = [n \in Names |->
                                  IF n \in clients_online THEN missed[n]
                                  ELSE missed[n] \cup {Render(name[c], message)}]
                 /\ UNCHANGED clients_online
            ELSE UNCHANGED <<clients_online, out, st, pend, missed>>
    /\ nrecv' = nrecv + 1
    /\ last' = Event("recv", c, message)
    /\ UNCHANGED <<clients, history, restore_last_messages, name, nclose>>

\* the drain returns and the loop of broadcast asks the set iterator for the
\* next pair: RuntimeError (Set changed size during iteration) when a
\* handshake has added a pair since the loop began, which leaves transfer
\* and client_handler through the finally clause; else the remaining
\* recipients are written
DrainResume(c) ==
    /\ st[c] = "drain"
    /\ IF Cardinality(clients) /= pend[c].used
       THEN /\ st' = [st EXCEPT ![c] = "closed"]
            /\ pend' = [pend EXCEPT ![c] = NoPend]
            /\ UNCHANGED out
       ELSE /\ out' = [w \in Conns |->
                          IF w \in pend[c].todo /\ ~is_closing(w)
                          THEN Append(out[w], pend[c].payload \o NL)
                          ELSE out[w]]
            /\ st' = [st EXCEPT ![c] = IF pend[c].replay THEN "replay" ELSE "append"]
            /\ pend' = [pend EXCEPT ![c] = [NoPend EXCEPT !.row = pend[c].row]]
    /\ last' = Event("drain", c, <<>>)
    /\ UNCHANGED <<clients, clients_online, history, restore_last_messages, name, nrecv, nclose,
                   missed>>

\* history_file resumes and appends the row of the handler of c
AppendStep(c) ==
    /\ st[c] = "append"
    /\ history' = Append(history, pend[c].row[1])
    /\ st' = [st EXCEPT ![c] = "active"]
    /\ pend' = [pend EXCEPT ![c] = NoPend]
    /\ last' = Event("append", c, <<>>)
    /\ UNCHANGED <<clients, clients_online, restore_last_messages, name, out, nrecv, nclose,
                   missed>>

\* restore_for_reconnect resumes with the lines of the file as they are now
\* and writes the replay
ReplayStep(c) ==
    /\ st[c] = "replay"
    /\ out' = [out EXCEPT ![c] = @ \o restore_for_reconnect(history, name[c])]
    /\ st' = [st EXCEPT ![c] = "active"]
    /\ pend' = [pend EXCEPT ![c] = NoPend]
    /\ last' = Event("replay", c, <<>>)
    /\ UNCHANGED <<clients, clients_online, history, restore_last_messages, name, nrecv, nclose,
                   missed>>

\* the lines read when the suspensions are studied
LinesI == {HI, DISCONNECT, RECONNECT}

InitI == Init /\ restore_last_messages = MaxRestore

NextI ==
    \/ \E c \in Conns, n \in Names : HandshakeRegister(c, n)
    \/ \E c \in Conns : HandshakeRestore(c)
    \/ \E c \in Conns, message \in LinesI : RecvI(c, message)
    \/ \E c \in Conns : DrainResume(c)
    \/ \E c \in Conns : AppendStep(c)
    \/ \E c \in Conns : ReplayStep(c)

SpecI == InitI /\ [][NextI]_vars

\* ================================================================ claims
\* the step just taken read the line message on connection c
RecvStep(c, message) == last' = Event("recv", c, message) /\ nrecv' = nrecv + 1

\* the step just taken is the handshake of connection c under the name n
HandshakeStep(c, n) == last' = Event("handshake", c, n) /\ st[c] = "connecting"

\* a session of the specification: handshake completed, connection not torn down
Session(c) == st[c] = "active"

ChatLines == {HI, A_COMMA_B}

PrivateNotice(sender_name, text) == PRIVATE_FROM \o sender_name \o COLON \o text \o NL

Last(s) == s[Len(s)]

\* number of positions of s that hold x
Count(s, x) == Cardinality({i \in 1..Len(s) : s[i] = x})

C2_PrivateDelivered ==
    [][\A c \in Conns :
        (RecvStep(c, PrivateTo(<<"B">>)) /\ \E w \in Conns : Session(w) /\ name[w] = <<"B">>) =>
            /\ \E w \in Conns :
                /\ Session(w) /\ name[w] = <<"B">>
                /\ out'[w] = Append(out[w], PrivateNotice(name[c], YO))
                /\ \A d \in Conns \ {w} : out'[d] = out[d]
            /\ history' = Append(history, Row(name[c], YO, Some(<<"B">>)))]_vars

\* C3: when A sends "/private n yo" and no session named n is registered,
\* "Recipient not found." is written to A's own connection and to no
\* other, and the history is unchanged.
C3_NotFoundToSenderOnly ==
    [][\A c \in Conns, n \in {<<"B">>, Stranger} :
        (RecvStep(c, PrivateTo(n)) /\ ~\E w \in Conns : Session(w) /\ name[w] = n) =>
            /\ out'[c] = Append(out[c], NOT_FOUND)
            /\ \A d \in Conns \ {c} : out'[d] = out[d]
            /\ history' = history]_vars

\* the records of h without recipient, oldest first
PublicRecords(h) == SelectSeq(h, LAMBDA r : r.recipient = None)

\* the last n elements of s (all of s when it has fewer)
LastN(s, n) == SubSeq(s, (IF Len(s) > n THEN Len(s) - n ELSE 0) + 1, Len(s))

\* the records rs as replayed lines "<sender>: <body>"
Replayed(rs) == [k \in 1..Len(rs) |-> Render(rs[k].sender, rs[k].message)]

\* C4: a client that completes the handshake is sent exactly the last
\* min(restore_last_messages, number of public records) public records of
\* the history, in log order, each as "<sender>: <body>", all of them
\* before the welcome line.
C4_NewClientReplay ==
    [][\A c \in Conns, n \in Names :
        HandshakeStep(c, n) =>
            out'[c] = (<<PROMPT>>
                       \o Replayed(LastN(PublicRecords(history), restore_last_messages)))
                      \o <<WELCOME \o n \o <<"!">> \o NL>>]_vars

\* position of the most recent record of n whose body begins with
\* /disconnect, 0 when there is none
Boundary(h, n) ==
    LET marks == {i \in 1..Len(h) : h[i].sender = n /\ StartsWith(h[i].message, DISCONNECT)}
    IN  IF marks = {} THEN 0 ELSE CHOOSE i \in marks : \A j \in marks : j <= i

\* C5: when an offline session named n sends /reconnect, the lines replayed
\* to it (after the presence notice) are exactly the records strictly after
\* the most recent record of n whose body begins with /disconnect, in log
\* order; nothing is replayed when the history holds no such record.
C5_ReconnectReplay ==
    [][\A c \in Conns :
        (RecvStep(c, RECONNECT) /\ name[c] \notin clients_online) =>
            out'[c] = Append(out[c], RECONNECT \o NL)
                      \o (IF Boundary(history, name[c]) = 0 THEN <<>>
                          ELSE Replayed(SubSeq(history, Boundary(history, name[c]) + 1,
                                               Len(history))))]_vars

\* C6: a /reconnect read while the sender's name is online writes nothing
\* to any connection, appends no record and leaves the registry, the online
\* set and every session where they were.
C6_ReconnectOnlineNoop ==
    [][\A c \in Conns :
        (RecvStep(c, RECONNECT) /\ name[c] \in clients_online) =>
            UNCHANGED <<out, history, clients, clients_online, st>>]_vars

\* A sent /disconnect, /reconnect and /reconnect again: one notice of each
\* kind was written and nothing else
C6_Witness ==
    /\ last = Event("recv", 1, RECONNECT)
    /\ nrecv = 3
    /\ history = <<Row(<<"A">>, DISCONNECT, None)>>
    /\ \A d \in {1, 2} :
        /\ Session(d)
        /\ Count(out[d], RECONNECT \o NL) = 1
        /\ Count(out[d], DISCONNECT \o NL) = 1
        /\ Len(out[d]) = 4
    /\ <<"A">> \in clients_online

\* C7: a chat line read from a session whose name is not online is
\* dropped: nothing is written to any connection, no record is appended,
\* the registry and the online set are unchanged.
C7_OfflineChatDropped ==
    [][\A c \in Conns, m \in ChatLines :
        (RecvStep(c, m) /\ name[c] \notin clients_online) =>
            UNCHANGED <<out, history, clients, clients_online, st>>]_vars

\* A sent /disconnect and then "hi": the line reached nobody
C7_Witness ==
    /\ last = Event("recv", 1, HI)
    /\ nrecv = 2
    /\ history = <<Row(<<"A">>, DISCONNECT, None)>>
    /\ <<"A">> \notin clients_online
    /\ \A d \in Conns : Session(d) /\ Count(out[d], Render(<<"A">>, HI)) = 0

\* C8: reading /disconnect never closes the sender's connection and never
\* takes its pair out of the registry, whether the name was online or not.
C8_DisconnectKeepsSession ==
    [][\A c \in Conns :
        RecvStep(c, DISCONNECT) =>
            /\ st'[c] = "active"
            /\ <<c, name[c]>> \in clients']_vars

\* C9: a /private line with fewer than three tokens fails for that line
\* only: the session stays active, the registry, the online set and the
\* history are unchanged.
C9_MalformedPrivateIsLocal ==
    [][\A c \in Conns :
        RecvStep(c, PRIVATE \o <<SPACE>> \o <<"B">>) =>
            /\ st'[c] = "active"
            /\ UNCHANGED <<clients, clients_online, history>>]_vars

\* C10: the registry holds only sessions whose connection has not been
\* torn down: the pair of a closed session is no longer in it.
C10_ClosedUnregistered ==
    \A c \in Conns : st[c] = "closed" => \A n \in Names : <<c, n>> \notin clients

\* C11: when the broadcast of a chat line meets a recipient whose send
\* fails (its peer has reset the connection), every other registered
\* recipient that is not closing is still written the line.
C11_BroadcastSurvivesFailure ==
    [][\A c \in Conns, m \in ChatLines :
        (/\ RecvStep(c, m)
         /\ name[c] \in clients_online
         /\ \E b \in Recipients : peer_reset(b)) =>
            \A d \in Recipients :
                ~peer_reset(d) => out'[d] = Append(out[d], Render(name[c], m))]_vars

\* the step just taken is the read of connection c raising ConnectionResetError
ResetStep(c) == last' = Event("reset", c, <<>>) /\ nclose' = nclose + 1

\* C12: a reset of the connection of a session R, or a malformed /private
\* line read from R, leaves every other session S active and leaves the
\* name of S in clients_online when it was there.
C12_FaultIsLocal ==
    [][\A r \in Conns :
        (ResetStep(r) \/ RecvStep(r, PRIVATE \o <<SPACE>> \o <<"B">>)) =>
            \A s \in Conns \ {r} :
                Session(s) =>
                    /\ st'[s] = "active"
                    /\ name[s] \in clients_online => name[s] \in clients_online']_vars

\* the step just taken handled the line message of connection c and its
\* append to the history failed
AppendFailsStep(c, message) ==
    last' = Event("append_fails", c, message) /\ nrecv' = nrecv + 1

\* C13: when the append of the record of a line fails, the sender's session
\* stays active, the registry is unchanged, and a chat line has still been
\* written to every registered recipient that is not closing.
C13_AppendFailureConfined ==
    [][\A c \in Conns, message \in LinesF :
        AppendFailsStep(c, message) =>
            /\ st'[c] = "active"
            /\ clients' = clients
            /\ message \in ChatLines =>
                   \A d \in Recipients : out'[d] = Append(out[d], Render(name[c], message))]_vars

\* C14: in every reachable state every name in clients_online is the name
\* of at least one pair of the registry clients.
C14_OnlineRegistered ==
    \A n \in clients_online : \E w \in Conns : <<w, n>> \in clients

\* A closed its connection cleanly: its name is still online and the only
\* pair that carries the name is the pair of the closed connection
C14_Witness ==
    /\ last = Event("eof", 1, <<>>)
    /\ st[1] = "closed"
    /\ <<"A">> \in clients_online
    /\ <<1, <<"A">>>> \in clients
    /\ \A d \in Conns \ {1} : <<d, <<"A">>>> \notin clients

\* the handle registered first under the name n: connections complete the
\* handshake in the order of their handles
FirstRegistered(n) == CHOOSE w \in Lookup(n) : \A v \in Lookup(n) : w <= v

\* C15: when "/private B yo" is read and every pair registered under B
\* belongs to an open session, the notice is written to the handle that
\* was registered first under B.
C15_LookupFirstRegistered ==
    [][\A c \in Conns :
        (/\ RecvStep(c, PrivateTo(<<"B">>))
         /\ Lookup(<<"B">>) /= {}
         /\ \A w \in Lookup(<<"B">>) : Session(w)) =>
            out'[FirstRegistered(<<"B">>)] =
                Append(out[FirstRegistered(<<"B">>)], PrivateNotice(name[c], YO))]_vars

\* C16: when the replay of a new client writes history lines to its
\* connection, nothing but the prompt has been written to that connection
\* before: no live broadcast line precedes the replayed lines.
C16_ReplayBeforeLive ==
    [][\A c \in Conns :
        (st[c] = "restoring" /\ st'[c] = "active" /\ restore_for_new(history) /= <<>>) =>
            out[c] = <<PROMPT>>]_vars

\* x is one of the payloads of the sequence s
Among(x, s) == \E k \in 1..Len(s) : s[k] = x

\* C17: when the replay of a /reconnect of the only session named n is
\* written, it holds every chat line that was broadcast since n went
\* offline.
C17_ReconnectReplaysMissed ==
    [][\A c \in Conns :
        (/\ st[c] = "replay" /\ st'[c] = "active"
         /\ \A d \in Conns \ {c} : name[d] /= name[c]) =>
            \A x \in missed[name[c]] :
                Among(x, restore_for_reconnect(history, name[c]))]_vars

\* C18: when a broadcast that was suspended at a drain resumes after a
\* handshake has added a pair to the registry, the broadcasting handler
\* goes on to its append or replay and every recipient the loop had still
\* to visit, and that is not closing, is written the payload.
C18_SuspendedBroadcastCompletes ==
    [][\A c \in Conns :
        (/\ st[c] = "drain" /\ st'[c] /= "drain"
         /\ Cardinality(clients) > pend[c].used) =>
            /\ st'[c] \in {"append", "replay"}
            /\ \A d \in pend[c].todo :
                   ~is_closing(d) => out'[d] = Append(out[d], pend[c].payload \o NL)]_vars

\* C19: for every connection d and every public chat message (s, m), the
\* line "s: m" has been written to d at most as many times as the message
\* was sent, live broadcast and both replays counted together; every
\* message sent has one record (s, m, no recipient) in the history.
C19_AtMostOnce ==
    \A d \in Conns, s \in Names, m \in ChatLines :
        Count(out[d], Render(s, m)) <= Count(history, Row(s, m, None))

\* C20: the body yo of a private message from s to B is never written, as
\* a notice or as a replayed line, to the connection of a session whose
\* name is neither s nor B.
C20_PrivateConfined ==
    \A d \in Conns, s \in Names \ {<<"B">>} :
        (st[d] /= "connecting" /\ name[d] /= s /\ name[d] /= <<"B">>) =>
            /\ Count(out[d], PrivateNotice(s, YO)) = 0
            /\ Count(out[d], Render(s, YO)) = 0

====
